---- MODULE Spec2Model ----
(***************************************************************************)
(* Model of the Real-Debrid resolution engine of smvshows:                 *)
(*   src/src/api/stremio.routes.js  (GET /rd-add/:infohash/:episode.json,  *)
(*                                   pickAndUnrestrict and its helpers)    *)
(*   src/src/services/tracker.js    (the realdebrid client, lines 60-169)  *)
(*   src/unnamed/part_003           (admin POST /rd-check)                 *)
(* One infohash is modelled: every table is keyed by infohash and no       *)
(* handler touches the rows of another infohash.                           *)
(***************************************************************************)
EXTENDS Integers, Sequences, FiniteSets, TLC

\* ------------------------------------------------------------------ bounds
\* Poll iterations before the deadline (the code has 180000 / 3000 = 60).
DeadlineTicks == 2
\* Jobs the provider accepts before every further add fails.
MaxJobs == 2
\* Longest provider file list enumerated for the file matcher.
MaxFiles == 3

\* The concurrent request handlers of GET /rd-add for the infohash.
Calls == {"h1", "h2"}
\* Episode numbers a request carries (parseInt(req.params.episode)).
Episodes == {2}

\* ------------------------------------------------------------- file paths
\* A path is kept with what the code reads from it: its extension,
\* the episode parse-torrent-title reports (0 = undefined) and the episode the
\* fallback regular expression captures (0 = no match).
PathE01 == [name |-> "/Show.S01E01.1080p.mkv", ext |-> "mkv", ptt |-> 1, re |-> 1]
PathE02 == [name |-> "/Show.S01E02.1080p.MKV", ext |-> "MKV", ptt |-> 2, re |-> 2]
PathEP02 == [name |-> "/Show S01 EP02.mkv", ext |-> "mkv", ptt |-> 0, re |-> 2]
PathMovie == [name |-> "/movie.720p.mkv", ext |-> "mkv", ptt |-> 0, re |-> 0]
PathNfo == [name |-> "/Show.S01E02.nfo", ext |-> "nfo", ptt |-> 2, re |-> 2]
Paths == {PathE01, PathE02, PathEP02, PathMovie, PathNfo}

toLowerCase(e) ==
  IF e = "MKV" THEN "mkv"
  ELSE IF e = "Tamil" THEN "tamil"
  ELSE IF e = "Hindi" THEN "hindi"
  ELSE IF e = "NA" THEN "na"
  ELSE e

isVideo(path) == toLowerCase(path.ext) \in {"mkv", "mp4", "avi", "mov", "m4v"}

\* ptt.parse(f.path).episode, then the regex fallback when it is undefined.
DerivedEpisode(path) == IF path.ptt # 0 THEN path.ptt ELSE path.re

NoFile == [id |-> 0, path |-> PathNfo, bytes |-> 0, selected |-> 0]

\* files[i] of the first video file whose derived episode is the request
\* (index 1-based; 0 = null).
tryMatchEpisode(files, episode) ==
  LET hits == {i \in 1..Len(files) :
                 isVideo(files[i].path) /\ DerivedEpisode(files[i].path) = episode}
  IN IF hits = {} THEN 0 ELSE CHOOSE i \in hits : \A j \in hits : i <= j

RECURSIVE ReduceLargest(_, _, _)
ReduceLargest(videos, k, largest) ==
  IF k > Len(videos) THEN largest
  ELSE ReduceLargest(videos, k + 1,
         IF videos[k].bytes > largest.bytes THEN videos[k] ELSE largest)

\* videos.reduce((largest, cur) => cur.bytes > (largest?.bytes || 0) ? cur : largest, null)
pickLargestVideo(files) ==
  ReduceLargest(SelectSeq(files, LAMBDA f : isVideo(f.path)), 1, NoFile)

\* files.findIndex(f => f.id === id), 1-based; 0 = not found.
findIndex(files, id) ==
  LET hits == {i \in 1..Len(files) : files[i].id = id}
  IN IF hits = {} THEN 0 ELSE CHOOSE i \in hits : \A j \in hits : i <= j

\* JSON columns: null or an array.
NullArr == [isArr |-> FALSE, v |-> <<>>]
Arr(s) == [isArr |-> TRUE, v |-> s]

NoPick == [call |-> FALSE, idx |-> 0, file |-> NoFile, link |-> 0, byEpisode |-> FALSE]

\* The file and link pickAndUnrestrict settles on before it calls
\* rd.unrestrictLink: call = FALSE when it returns null without calling.
PickEpisode(info, requestedEpisode) ==
  IF requestedEpisode > 0 THEN tryMatchEpisode(info.files.v, requestedEpisode) ELSE 0

pickAndUnrestrict(info, requestedEpisode) ==
  LET m == PickEpisode(info, requestedEpisode)
      largest == pickLargestVideo(info.files.v)
      found == findIndex(info.files.v, largest.id)
      idx == IF m # 0 THEN m
             ELSE IF largest.id # 0 THEN (IF found # 0 THEN found ELSE 1)
             ELSE 0
      file == IF m # 0 THEN info.files.v[m] ELSE largest
  IN IF ~info.files.isArr \/ ~info.links.isArr THEN NoPick
     ELSE IF idx # 0 /\ idx <= Len(info.links.v)
       THEN [call |-> TRUE, idx |-> idx, file |-> file, link |-> info.links.v[idx],
             byEpisode |-> m # 0]
       ELSE NoPick

\* The index into info.links the stream listing settles on for the object
\* info (lines 1222-1250), 1-based, 0 = no file.
listingIndex(info, type, episode) ==
  LET downloadableFiles == SelectSeq(info.files.v, LAMBDA f : f.selected = 1)
      videoFiles == SelectSeq(downloadableFiles,
                      LAMBDA f : toLowerCase(f.path.ext) \in {"mkv", "mp4", "avi"})
      largest == ReduceLargest(videoFiles, 1, videoFiles[1])
      hits == {i \in 1..Len(downloadableFiles) :
                 DerivedEpisode(downloadableFiles[i].path) = episode}
      linkIndex == IF type = "movie"
                     THEN (IF videoFiles = <<>> THEN 0
                           ELSE findIndex(downloadableFiles, largest.id))
                   ELSE IF hits = {} THEN 0
                   ELSE CHOOSE i \in hits : \A j \in hits : i <= j
  IN IF linkIndex # 0 /\ linkIndex <= Len(info.links.v) THEN linkIndex ELSE 0

\* Provider contract: one link per selected file, in file order; a link is
\* named by the id of the file it downloads.
RECURSIVE LinksOf(_)
LinksOf(files) ==
  IF files = <<>> THEN <<>>
  ELSE IF Head(files).selected = 1 THEN <<Head(files).id>> \o LinksOf(Tail(files))
  ELSE LinksOf(Tail(files))

\* ------------------------------------------------------- provider answers
EpFiles ==
  << [id |-> 1, path |-> PathE01, bytes |-> 2, selected |-> 1],
     [id |-> 2, path |-> PathE02, bytes |-> 1, selected |-> 1] >>
NfoFiles == << [id |-> 1, path |-> PathNfo, bytes |-> 1, selected |-> 1] >>

\* The files and links of a provider answer, named by a token; "null" is the
\* pair of null columns of a row written without them.
FilesOf(body) ==
  IF body = "null" THEN NullArr
  ELSE IF body = "noVideo" THEN Arr(NfoFiles)
  ELSE Arr(EpFiles)
LinksIn(body) ==
  IF body = "null" THEN NullArr
  ELSE IF body = "noVideo" THEN Arr(LinksOf(NfoFiles))
  ELSE IF body = "downloaded" THEN Arr(LinksOf(EpFiles))
  ELSE Arr(<<>>)

InfoDownloading == [status |-> "downloading", body |-> "downloading"]
InfoDownloaded == [status |-> "downloaded", body |-> "downloaded"]
InfoNoVideo == [status |-> "downloaded", body |-> "noVideo"]
\* What GET /torrents/info/{id} may answer when it answers with a torrent.
Infos == {InfoDownloading, InfoDownloaded, InfoNoVideo}
\* Its answers for a torrent the provider declares failed.
InfoError == [status |-> "error", body |-> "downloading"]
InfoMagnetError == [status |-> "magnet_error", body |-> "null"]
FailedInfos == {InfoError, InfoMagnetError}
\* Its answer null (an empty response body): info?.status || 'unknown', no files.
InfoNull == [status |-> "unknown", body |-> "null"]

\* An answer or a row as the object the code reads.
Obj(info) ==
  [status |-> info.status, files |-> FilesOf(info.body), links |-> LinksIn(info.body)]

isNonTerminal(status) ==
  status \in {"waiting_files_selection", "queued", "downloading",
              "magnet_conversion", "compressing", "uploading"}

\* ------------------------------------------------------------------ state
VARIABLES
  rdTorrent,      \* the RdTorrent row of the infohash (present = FALSE: no row)
  lock,           \* TRUE iff an RdCacheLock row exists for the infohash
  lockAt,         \* createdAt of that row (0: no row)
  now,            \* the clock new Date() reads
  streamRow,      \* TRUE iff a Stream row exists for the infohash
  magnetRow,      \* TRUE iff a MagnetCache row with a magnet exists
  pendingThread,  \* TRUE iff a pending thread lists a magnet of the infohash
  legacyRow,      \* TRUE iff the RdTorrent row predates the RdCacheLock table
  jobs,           \* number of torrents the provider created for the infohash
  call,           \* per handler: position, locals and what it has called so far
  mFiles, mMovie, mEp, mPhase, mPick,  \* file matcher harness
  mLink,          \* the link the stream listing unrestricts for the same torrent
  sType, sIn, sOut, sPhase, sCalls,    \* stream listing: req.params.type,
                                       \* finalStreams, the list answered,
                                       \* position, provider calls made
  cachedTrackers, \* tracker.js: the module's cached tracker list
  tPhase,         \* fetchAndCacheTrackers: "idle" or "fetching" (awaiting axios.get)
  tData,          \* the lines of the response.data of the fetch
  tGot,           \* what the last getTrackers() returned
  isCrawling,     \* orchestrator: let isCrawling (part_001 line 8)
  exported,       \* the isCrawling property of its module.exports
  healthSeen,     \* the last answer of GET /health, and whether a run was under way
  run,            \* per runFullWorkflow execution: position and locals
  threadRow,      \* thread_hash of the Thread row of the title (0: no row)
  failedThreads   \* thread_hash of every FailedThread row

trackerVars == <<cachedTrackers, tPhase, tData, tGot>>
crawlVars == <<isCrawling, exported, healthSeen, run, threadRow, failedThreads>>
svcVars == <<trackerVars, crawlVars>>
dbVars == <<rdTorrent, lock, lockAt, jobs>>
fixedVars == <<streamRow, magnetRow, pendingThread, legacyRow, now, svcVars>>
matchVars == <<mFiles, mMovie, mEp, mPhase, mPick, mLink>>
listVars == <<sType, sIn, sOut, sPhase, sCalls>>
vars == <<rdTorrent, lock, lockAt, now, streamRow, magnetRow, pendingThread, legacyRow, jobs, call,
          mFiles, mMovie, mEp, mPhase, mPick, mLink,
          sType, sIn, sOut, sPhase, sCalls, svcVars>>

\* let cachedTrackers = [] (tracker.js line 6): the services as their modules
\* load them, nothing fetched or asked yet.
TrackerIdle ==
  /\ cachedTrackers = <<>> /\ tPhase = "idle" /\ tData = <<>>
  /\ tGot = [called |-> FALSE, list |-> <<>>]

\* The executions of runFullWorkflow followed.
Runs == {"w1", "w2"}

\* An execution that has not been triggered: nothing scraped, no thread in
\* hand.
IdleRun == [pc |-> "idle", scraped |-> <<>>, existing |-> 0, tmdb |-> FALSE, last |-> "none"]

\* The orchestrator module once loaded (part_001 lines 8 and 154): the flag is
\* false, and module.exports holds the value it had then.
CrawlLoaded ==
  /\ isCrawling = FALSE
  /\ exported = isCrawling
  /\ healthSeen = [asked |-> FALSE, isCrawling |-> FALSE, running |-> FALSE]
  /\ run = [w \in Runs |-> IdleRun]
  /\ failedThreads = {}

CrawlIdle == CrawlLoaded /\ threadRow = 0

SvcIdle == TrackerIdle /\ CrawlIdle

NoRow == [present |-> FALSE, rd_id |-> 0, status |-> "", body |-> "null"]

\* A handler that has not been entered: locals as declared at the top of the
\* route, nothing called yet.
Fresh ==
  [pc |-> "idle", ep |-> 0, cachedNT |-> FALSE, rdId |-> 0,
   readded |-> FALSE, elapsed |-> 0,
   resp |-> <<>>, out |-> "none",
   \* what this request has observed and called so far
   lockSeen |-> "unread", fast |-> "miss",
   initAdds |-> 0, initJobs |-> 0, reAdded |-> FALSE,
   didSelect |-> FALSE, didFetch |-> FALSE, didUnrestrict |-> FALSE,
   sawFailed |-> FALSE]

\* The not-indexed answer sent as 404.
RespondNotFound(r, code, out) ==
  [r EXCEPT !.pc = "done", !.resp = Append(@, IF out = "notIndexed" THEN 404 ELSE code),
            !.out = out,
            !.cachedNT = FALSE, !.rdId = 0, !.readded = FALSE, !.elapsed = 0]

\* res.status(code).json(...) / res.redirect(302, url), then return: the
\* locals of the handler end with it.
Respond(r, code, out) ==
  [r EXCEPT !.pc = "done", !.resp = Append(@, code), !.out = out,
            !.cachedNT = FALSE, !.rdId = 0, !.readded = FALSE, !.elapsed = 0]

\* A snapshot usable by the fast path (line 878).
FastUsable(row) ==
  row.present /\ Obj(row).files.isArr /\ Obj(row).links.isArr
  /\ Len(Obj(row).links.v) > 0

\* The ready test of the poll loop (line 1001).
PollReady(info) ==
  Obj(info).files.isArr /\ Obj(info).links.isArr /\ Len(Obj(info).links.v) > 0
  /\ info.status = "downloaded"

\* A snapshot that records no status.
SnapshotWithoutStatus(rdId, info) ==
  [present |-> TRUE, rd_id |-> rdId, status |-> "queued", body |-> info.body]

\* models.RdTorrent.upsert of upsertRdSnapshot (lines 1019-1026).
SnapshotOf(rdId, info) ==
  [present |-> TRUE, rd_id |-> rdId, status |-> info.status, body |-> info.body]

\* models.RdTorrent.upsert({infohash, rd_id, status: 'queued', last_checked})
\* (lines 916-921): the columns not named keep their value on an existing row.
QueuedOver(row, rdId) ==
  IF row.present THEN [row EXCEPT !.rd_id = rdId, !.status = "queued"]
  ELSE [present |-> TRUE, rd_id |-> rdId, status |-> "queued", body |-> "null"]

\* Rows written before the RdCacheLock table existed (crud.js line 116): the
\* earlier rd-add stored {rd_id, status: 'magnet_conversion'} on its add
\* (maintenance.js line 362), and the earlier upsertRdSnapshot wrote the
\* snapshot and the lock only if (models.RdCacheLock).
LegacyAdded ==
  [present |-> TRUE, rd_id |-> 1, status |-> "magnet_conversion", body |-> "null"]
LegacySnapshot == SnapshotOf(1, InfoDownloaded)
LegacyRows == {LegacyAdded, LegacySnapshot}

\* Empty RdTorrent and RdCacheLock tables, or a legacy row without a lock; the
\* infohash is linked (Stream and MagnetCache rows), linked without a cached
\* magnet, listed by a pending thread, or unknown.
EngineInit ==
  /\ lock = FALSE /\ lockAt = 0 /\ now = 1
  /\ SvcIdle
  /\ streamRow \in BOOLEAN
  /\ magnetRow \in BOOLEAN
  /\ pendingThread \in BOOLEAN
  /\ (magnetRow => streamRow)
  /\ (pendingThread => ~streamRow)
  /\ legacyRow \in BOOLEAN
  /\ (legacyRow => streamRow /\ magnetRow)
  /\ rdTorrent \in (IF legacyRow THEN LegacyRows ELSE {NoRow})
  /\ jobs = (IF legacyRow THEN 1 ELSE 0)
  /\ call = [c \in Calls |-> Fresh]

\* The listing found no file to unrestrict.
NoLink == [ready |-> FALSE, link |-> 0]

MatchIdle ==
  /\ mFiles = <<>> /\ mMovie = FALSE /\ mEp = 1 /\ mPhase = "off" /\ mPick = NoPick
  /\ mLink = NoLink

ListIdle ==
  /\ sType = "series" /\ sIn = <<>> /\ sOut = <<>> /\ sPhase = "off" /\ sCalls = {}

Init == EngineInit /\ MatchIdle /\ ListIdle

\* ------------------------------------------------- GET /rd-add/:infohash/:episode
\* Every action is one suspension point of the handler (an awaited database or
\* provider call) with the synchronous code that follows it.  rd.isEnabled is
\* TRUE throughout.  A disjunct marked "rejected" is a database promise that
\* rejects; the route's catch (lines 1010-1013) answers it with 503.

Step(c, r) ==
  /\ call' = [call EXCEPT ![c] = r]
  /\ UNCHANGED fixedVars
  /\ UNCHANGED matchVars
  /\ UNCHANGED listVars

\* Lines 946-958: the job id to poll, or one more read of the snapshot.
ToPoll(r) ==
  IF r.rdId = 0 THEN [r EXCEPT !.pc = "refetch"]
  ELSE [r EXCEPT !.pc = "poll", !.elapsed = 0]

\* A request arrives (lines 868-873).
Start(c) ==
  /\ call[c].pc = "idle"
  /\ \E ep \in Episodes : Step(c, [Fresh EXCEPT !.pc = "fastPath", !.ep = ep])
  /\ UNCHANGED dbVars

\* An unrestrict failure answered as an error of its own.
UnrestrictFailure(r, pc) == Respond(r, 500, "unrestrictFailed")

\* pickAndUnrestrict returns null when rd.unrestrictLink throws or answers
\* without a download url (lines 1102-1109): if (link) is false and the
\* handler goes on at pc.
NotPlayableYet(r, pc) == [r EXCEPT !.pc = pc, !.didUnrestrict = TRUE]

\* Lines 876-881: the cached snapshot, pickAndUnrestrict on it, redirect.
\* cached?.rd_id and isNonTerminal(cached.status) are what lines 899-903 keep
\* of the row.
FastPath(c) ==
  LET r == call[c]
      pick == pickAndUnrestrict(Obj(rdTorrent), r.ep)
      usable == FastUsable(rdTorrent) /\ pick.call
      seen == [r EXCEPT !.rdId = rdTorrent.rd_id,
                        !.cachedNT = rdTorrent.present /\ isNonTerminal(rdTorrent.status),
                        !.fast = IF ~usable THEN "miss"
                                 ELSE IF rdTorrent.status = "downloaded" THEN "hit"
                                 ELSE "usable",
                        !.didUnrestrict = usable]
  IN /\ r.pc = "fastPath"
     /\ \/ /\ usable
           /\ Step(c, Respond(seen, 302, "ready"))
        \/ /\ usable   \* unrestrictLink threw or answered without a download url
           /\ Step(c, NotPlayableYet(seen, "indexChecks"))
        \/ /\ ~usable
           /\ Step(c, [seen EXCEPT !.pc = "indexChecks"])
        \/ Step(c, Respond(r, 503, "error"))     \* rejected
     /\ UNCHANGED dbVars

\* No row ever found missing.
NeverMissing(row) == FALSE

\* if (!stream) of line 885 and if (!magnetRow?.magnet) of line 892.
Missing(row) == ~row

\* Lines 883-896: the Stream row and the MagnetCache row.
IndexChecks(c) ==
  LET r == call[c]
  IN /\ r.pc = "indexChecks"
     /\ \/ /\ Missing(streamRow)
           /\ Step(c, Respond(r, 503, "notIndexed"))
        \/ /\ ~Missing(streamRow) /\ Missing(magnetRow)
           /\ Step(c, Respond(r, 503, "magnetUnavailable"))
        \/ /\ ~Missing(streamRow) /\ ~Missing(magnetRow)
           /\ Step(c, [r EXCEPT !.pc = "readLock"])
        \/ Step(c, Respond(r, 503, "error"))     \* rejected
     /\ UNCHANGED dbVars

\* An upsert that drops the row it finds.
Released(lockRow) == ~lockRow

\* models.RdCacheLock.upsert({ infohash, createdAt: new Date() }): the row
\* exists afterwards, whether or not it existed before.
Upserted(lockRow) == TRUE

\* The lock row ignored.
LockIgnored(lockRow) == TRUE

\* !lock of lines 904-905.
NoLock(lockRow) == ~lockRow

\* Lines 899-905: the lock row, and the branch taken.
ReadLock(c) ==
  LET r == [call[c] EXCEPT !.lockSeen = IF lock THEN "present" ELSE "absent",
                           !.cachedNT = FALSE]
      nonTerminal == call[c].cachedNT
  IN /\ call[c].pc = "readLock"
     /\ \/ /\ nonTerminal /\ NoLock(lock)
           /\ Step(c, [r EXCEPT !.pc = "lockUpsertNT"])
        \/ /\ ~nonTerminal /\ NoLock(lock)
           /\ Step(c, [r EXCEPT !.pc = "lockAcquire"])
        \/ /\ ~NoLock(lock)
           /\ Step(c, ToPoll(r))
        \/ Step(c, Respond(call[c], 503, "error"))     \* rejected
     /\ UNCHANGED dbVars

\* Line 904: the lock upsert of a handler that cached a non-terminal snapshot.
LockUpsertNT(c) ==
  LET r == call[c]
  IN /\ r.pc = "lockUpsertNT"
     /\ \/ /\ lock' = Upserted(lock) /\ lockAt' = now
           /\ Step(c, ToPoll(r))
        \/ /\ Step(c, Respond(r, 503, "error"))     \* rejected
           /\ UNCHANGED <<lock, lockAt>>
     /\ UNCHANGED <<rdTorrent, jobs>>

\* The add attempted whatever job id the snapshot holds.
AddAlways(rdId) == TRUE

\* The fallback attempted whatever add-by-magnet answered.
FallbackAlways(rdId) == TRUE

\* if (!rdId) of line 910: add only without a cached job id.
NeedsAdd(rdId) == rdId = 0

\* if (!rdId) of line 930: the fallback only when add-by-magnet gave no id.
NeedsFallback(rdId) == rdId = 0

\* Line 907: acquire the lock, then lines 909-910.
LockAcquire(c) ==
  LET r == call[c]
  IN /\ r.pc = "lockAcquire"
     /\ \/ /\ lock' = Upserted(lock) /\ lockAt' = now
           /\ Step(c, IF NeedsAdd(r.rdId) THEN [r EXCEPT !.pc = "addMagnet"]
                      ELSE IF NeedsFallback(r.rdId) THEN [r EXCEPT !.pc = "addAndSelect"]
                      ELSE ToPoll(r))
        \/ /\ Step(c, Respond(r, 503, "error"))     \* rejected
           /\ UNCHANGED <<lock, lockAt>>
     /\ UNCHANGED <<rdTorrent, jobs>>

\* Lines 911-914, 924-930: rd.addMagnet; a throw or an answer without id
\* leaves rdId null, and only then the fallback of line 931 runs.
AddMagnet(c) ==
  LET r == [call[c] EXCEPT !.initAdds = @ + 1]
  IN /\ call[c].pc = "addMagnet"
     /\ \/ /\ jobs < MaxJobs
           /\ jobs' = jobs + 1
           /\ Step(c, [r EXCEPT !.rdId = jobs + 1, !.initJobs = @ + 1,
                                !.pc = "saveQueued"])
        \/ /\ UNCHANGED jobs
           /\ Step(c, IF NeedsFallback(r.rdId) THEN [r EXCEPT !.pc = "addAndSelect"]
                      ELSE ToPoll(r))
     /\ UNCHANGED <<rdTorrent, lock, lockAt>>

\* Lines 915-923: persist {rd_id, status: 'queued'}.  The upsert is awaited
\* inside the try of line 911, so its rejection is swallowed by line 924 with
\* rdId set and torrentAddedViaMagnet still false: no selectFiles follows.
SaveQueued(c) ==
  LET r == call[c]
  IN /\ r.pc = "saveQueued"
     /\ \/ /\ rdTorrent' = QueuedOver(rdTorrent, r.rdId)
           /\ Step(c, IF NeedsFallback(r.rdId) THEN [r EXCEPT !.pc = "addAndSelect"]
                      ELSE [r EXCEPT !.pc = "selectFiles"])
        \/ /\ UNCHANGED rdTorrent                   \* rejected
           /\ Step(c, IF NeedsFallback(r.rdId) THEN [r EXCEPT !.pc = "addAndSelect"]
                      ELSE ToPoll(r))
     /\ UNCHANGED <<lock, lockAt, jobs>>

\* upsertRdSnapshot (lines 1018-1030): the RdTorrent upsert, then the
\* RdCacheLock upsert; ok = FALSE when one of the two is rejected.
upsertRdSnapshot(rdId, info) ==
  { [ok |-> TRUE, row |-> SnapshotOf(rdId, info), lock |-> Upserted(lock), at |-> now],
    [ok |-> FALSE, row |-> rdTorrent, lock |-> lock, at |-> lockAt],
    [ok |-> FALSE, row |-> SnapshotOf(rdId, info), lock |-> lock, at |-> lockAt] }

\* rd.addAndSelect (tracker.js lines 145-158) answers the torrent info, or null
\* when its add, its selectFiles or its getTorrentInfo threw.
\* Lines 930-937: the fallback, and upsertRdSnapshot of its answer.
AddAndSelect(c) ==
  LET r == [call[c] EXCEPT !.initAdds = @ + 1]
      made == [r EXCEPT !.initJobs = @ + 1]
  IN /\ call[c].pc = "addAndSelect"
     /\ \/ /\ UNCHANGED <<jobs, rdTorrent, lock, lockAt>>     \* the add itself failed
           /\ Step(c, ToPoll(r))
        \/ /\ jobs < MaxJobs                          \* added, then a later call threw
           /\ jobs' = jobs + 1
           /\ UNCHANGED <<rdTorrent, lock, lockAt>>
           /\ Step(c, ToPoll(made))
        \/ /\ jobs < MaxJobs
           /\ jobs' = jobs + 1
           /\ \E info \in Infos : \E w \in upsertRdSnapshot(jobs + 1, info) :
                /\ rdTorrent' = w.row
                /\ lock' = w.lock
                /\ lockAt' = w.at
                /\ Step(c, IF w.ok THEN ToPoll([made EXCEPT !.rdId = jobs + 1])
                           ELSE Respond(made, 503, "error"))

\* Lines 940-943: delay(3000), then rd.selectFiles(rdId, 'all'), errors ignored.
SelectFiles(c) ==
  LET r == call[c]
  IN /\ r.pc = "selectFiles"
     /\ Step(c, ToPoll([r EXCEPT !.didSelect = TRUE]))
     /\ UNCHANGED dbVars

\* Lines 947-955: no job id yet, read the snapshot once more.
Refetch(c) ==
  LET r == call[c]
  IN /\ r.pc = "refetch"
     /\ \/ /\ rdTorrent.rd_id # 0
           /\ Step(c, ToPoll([r EXCEPT !.rdId = rdTorrent.rd_id]))
        \/ /\ rdTorrent.rd_id = 0
           /\ Step(c, Respond(r, 503, "notCreatedYet"))
        \/ Step(c, Respond(r, 503, "error"))     \* rejected
     /\ UNCHANGED dbVars

\* ------------------------------------------------------------- poll loop
\* Lines 968-995: the catch of rd.getTorrentInfo.  A ResourceNotFoundError
\* with readded false starts the re-add; every other throw continues the loop.
OnFetchError(r, is404) ==
  IF is404 /\ ~r.readded THEN [r EXCEPT !.pc = "reAddMagnet"]
  ELSE r

\* A delay that takes no time.
NoTick(elapsed) == elapsed

\* await delay(3000) of lines 962 and 987: Date.now() moves on by an interval.
Tick(elapsed) == elapsed + 1

\* Lines 961-1008: one iteration of the loop (delay, rd.getTorrentInfo,
\* upsertRdSnapshot, pickAndUnrestrict), or the 503 once the deadline passed.
Polled(r) == [r EXCEPT !.elapsed = Tick(@), !.didFetch = TRUE]

\* Line 961 false, line 1008.
PollDeadline(c) ==
  /\ call[c].pc = "poll"
  /\ call[c].elapsed >= DeadlineTicks
  /\ Step(c, Respond(call[c], 503, "timeout"))
  /\ UNCHANGED dbVars

\* rd.getTorrentInfo throws (lines 967-994): ResourceNotFoundError on a 404,
\* the error of the request otherwise (timeout, rate limit, 5xx).
FetchThrows(c, is404) ==
  /\ call[c].pc = "poll"
  /\ call[c].elapsed < DeadlineTicks
  /\ Step(c, OnFetchError(Polled(call[c]), is404))
  /\ UNCHANGED dbVars

\* rd.getTorrentInfo answers null (a response whose body is the JSON null):
\* upsertRdSnapshot stores info?.status || 'unknown', then line 1001 reads
\* info.files of null and the route's catch answers 503.
FetchNull(c) ==
  /\ call[c].pc = "poll"
  /\ call[c].elapsed < DeadlineTicks
  /\ \E w \in upsertRdSnapshot(call[c].rdId, InfoNull) :
       /\ rdTorrent' = w.row
       /\ lock' = w.lock
       /\ lockAt' = w.at
       /\ Step(c, Respond(Polled(call[c]), 503, "error"))
  /\ UNCHANGED jobs

\* Lines 998-1004 for the answer info and the outcome w of upsertRdSnapshot.
Answered(c, info, w) ==
  LET r == call[c]
      t == [Polled(r) EXCEPT !.sawFailed = @ \/ info \in FailedInfos]
      pick == pickAndUnrestrict(Obj(info), r.ep)
      ready == PollReady(info) /\ pick.call
  IN /\ r.pc = "poll"
     /\ r.elapsed < DeadlineTicks
     /\ rdTorrent' = w.row
     /\ lock' = w.lock
     /\ lockAt' = w.at
     /\ \/ /\ ~w.ok
           /\ Step(c, Respond(t, 503, "error"))
        \/ /\ w.ok /\ ready
           /\ Step(c, Respond([t EXCEPT !.didUnrestrict = TRUE], 302, "ready"))
        \/ /\ w.ok /\ ready   \* unrestrictLink failed
           /\ Step(c, NotPlayableYet(t, "poll"))
        \/ /\ w.ok /\ ~ready
           /\ Step(c, t)
     /\ UNCHANGED jobs

\* rd.getTorrentInfo answers a torrent that downloads or has downloaded.
FetchAnswers(c) ==
  \E info \in Infos : \E w \in upsertRdSnapshot(call[c].rdId, info) : Answered(c, info, w)

\* rd.getTorrentInfo answers a torrent the provider has given up on.
FetchFailed(c) ==
  \E info \in FailedInfos : \E w \in upsertRdSnapshot(call[c].rdId, info) :
    Answered(c, info, w)

Poll(c) ==
  \/ PollDeadline(c)
  \/ \E is404 \in BOOLEAN : FetchThrows(c, is404)
  \/ FetchNull(c)
  \/ FetchAnswers(c)

\* Lines 973-977: rd.addMagnet of the re-add.
ReAddMagnet(c) ==
  LET r == [call[c] EXCEPT !.reAdded = TRUE]
  IN /\ r.pc = "reAddMagnet"
     /\ \/ /\ jobs < MaxJobs
           /\ jobs' = jobs + 1
           /\ Step(c, [r EXCEPT !.rdId = jobs + 1, !.pc = "reSelect"])
        \/ /\ UNCHANGED jobs
           /\ Step(c, [r EXCEPT !.pc = "reAddAndSelect"])
     /\ UNCHANGED <<rdTorrent, lock, lockAt>>

\* Lines 978-984 and 993-994: rd.addAndSelect of the re-add; without a new id
\* the loop continues with readded unchanged.
ReAddAndSelect(c) ==
  LET r == call[c]
  IN /\ r.pc = "reAddAndSelect"
     /\ \/ /\ UNCHANGED <<jobs, rdTorrent, lock, lockAt>>
           /\ Step(c, [r EXCEPT !.pc = "poll"])
        \/ /\ jobs < MaxJobs
           /\ jobs' = jobs + 1
           /\ UNCHANGED <<rdTorrent, lock, lockAt>>
           /\ Step(c, [r EXCEPT !.pc = "poll"])
        \/ /\ jobs < MaxJobs
           /\ jobs' = jobs + 1
           /\ \E info \in Infos : \E w \in upsertRdSnapshot(jobs + 1, info) :
                /\ rdTorrent' = w.row
                /\ lock' = w.lock
                /\ lockAt' = w.at
                /\ Step(c, IF w.ok THEN [r EXCEPT !.rdId = jobs + 1, !.pc = "reSelect"]
                           ELSE Respond(r, 503, "error"))

\* Lines 985-991: delay(3000), rd.selectFiles(rdId, 'all'), readded = true.
ReSelect(c) ==
  LET r == call[c]
  IN /\ r.pc = "reSelect"
     /\ Step(c, [r EXCEPT !.elapsed = Tick(@), !.didSelect = TRUE, !.readded = TRUE,
                          !.pc = "poll"])
     /\ UNCHANGED dbVars

\* ------------------------------------------------------- admin POST /rd-check
\* part_003 lines 389-446, run for a pending thread that lists the magnet (the
\* infohash is then not indexed): nothing when the lock exists; the lock alone
\* over a downloaded snapshot; otherwise rd.addAndSelect, the lock,
\* rd.getTorrentInfo and a snapshot of its answer.
RdCheck ==
  /\ ~lock
  /\ \/ /\ rdTorrent.present /\ rdTorrent.status = "downloaded"
        /\ lock' = Upserted(lock) /\ lockAt' = now
        /\ UNCHANGED <<rdTorrent, jobs>>
     \/ /\ ~(rdTorrent.present /\ rdTorrent.status = "downloaded")
        /\ pendingThread
        /\ jobs < MaxJobs
        /\ jobs' = jobs + 1
        /\ \/ UNCHANGED <<lock, lockAt, rdTorrent>>         \* addAndSelect answered null
           \/ /\ lock' = Upserted(lock) /\ lockAt' = now                        \* getTorrentInfo threw
              /\ UNCHANGED rdTorrent
           \/ /\ lock' = Upserted(lock) /\ lockAt' = now
              /\ \E info \in Infos : rdTorrent' = SnapshotOf(jobs + 1, info)
  /\ UNCHANGED call
  /\ UNCHANGED fixedVars
  /\ UNCHANGED matchVars
  /\ UNCHANGED listVars

\* One step of the handler c.
CallStep(c) ==
  \/ Start(c) \/ FastPath(c) \/ IndexChecks(c) \/ ReadLock(c)
  \/ LockUpsertNT(c) \/ LockAcquire(c) \/ AddMagnet(c) \/ SaveQueued(c)
  \/ AddAndSelect(c) \/ SelectFiles(c) \/ Refetch(c) \/ Poll(c)
  \/ ReAddMagnet(c) \/ ReAddAndSelect(c) \/ ReSelect(c)

Next ==
  \/ \E c \in Calls : CallStep(c)
  \/ RdCheck

Spec == Init /\ [][Next]_vars

\* One request, with the admin check beside it.  Every awaited promise of the
\* handler settles (axios calls time out after 15 s, timers fire), so a
\* handler that can take a step takes one.
FairNext ==
  \/ CallStep("h1")
  \/ RdCheck

FairSpec == Init /\ [][FairNext]_vars /\ WF_vars(CallStep("h1"))

\* One request against a provider that may also declare the torrent failed.
FailNext ==
  \/ CallStep("h1")
  \/ FetchFailed("h1")

FailSpec == Init /\ [][FailNext]_vars

\* A later request for the infohash, served after an earlier one was answered
\* (lines 868-873): the handler starts anew, with what the earlier request
\* called forgotten.
Later(c) ==
  /\ call[c].pc = "done"
  /\ \E ep \in Episodes : Step(c, [Fresh EXCEPT !.pc = "fastPath", !.ep = ep])
  /\ UNCHANGED dbVars

\* Requests that keep arriving: two at a time, each followed by later ones.
LaterNext ==
  \/ \E c \in Calls : CallStep(c)
  \/ \E c \in Calls : Later(c)

LaterSpec == Init /\ [][LaterNext]_vars

\* How far the clock is followed.
MaxClock == 3

\* Time passes: between two awaits of a handler (the poll loop alone sleeps
\* 3 s per iteration, line 962) new Date() moves on.
Advance ==
  /\ now < MaxClock
  /\ now' = now + 1
  /\ UNCHANGED <<streamRow, magnetRow, pendingThread, legacyRow, svcVars>>
  /\ UNCHANGED <<dbVars, call>>
  /\ UNCHANGED matchVars
  /\ UNCHANGED listVars

\* One resolve call and the admin check, with the clock running.
ClockNext == CallStep("h1") \/ RdCheck \/ Advance

ClockSpec == Init /\ [][ClockNext]_vars

\* ------------------------------------------------------------ file matcher
\* pickAndUnrestrict on the answers of the provider: a torrent of up to
\* MaxFiles files, listed one by one, with the links the provider gives it.
Sizes == {1, 2}

\* The url of the listing (lines 1263 and 1273) carries episode || 1, and the
\* route reads it back with parseInt (line 873).
requestedEpisode(movie, episode) == IF movie THEN 1 ELSE episode

MatchInit ==
  /\ EngineInit /\ ListIdle
  /\ ~legacyRow /\ streamRow /\ magnetRow
  /\ mFiles = <<>>
  /\ mMovie \in BOOLEAN
  /\ mEp \in {1, 2}
  /\ (mMovie => mEp = 1)
  /\ mPhase = "given"
  /\ mPick = NoPick
  /\ mLink = NoLink

MatchFixed ==
  /\ UNCHANGED <<rdTorrent, lock, lockAt, jobs, call>>
  /\ UNCHANGED fixedVars
  /\ UNCHANGED listVars

\* One more file of the torrent: ids count from 1 in list order.
ListFile ==
  /\ mPhase = "given"
  /\ Len(mFiles) < MaxFiles
  /\ \E path \in Paths, bytes \in Sizes, selected \in {0, 1} :
       mFiles' = Append(mFiles, [id |-> Len(mFiles) + 1, path |-> path,
                                 bytes |-> bytes, selected |-> selected])
  /\ UNCHANGED <<mMovie, mEp, mPhase, mPick, mLink>>
  /\ MatchFixed

\* rdTorrent.links[linkIndex] of line 1251 for the snapshot info listed as
\* type (episode as the listing parsed it from the id).
listedLink(info, type, episode) ==
  LET linkIndex == listingIndex(info, type, episode)
  IN IF linkIndex # 0 THEN [ready |-> TRUE, link |-> info.links.v[linkIndex]]
     ELSE NoLink

\* pickAndUnrestrict(info, requestedEpisode) on the downloaded torrent, and
\* the file selection of the stream listing on the same snapshot.
Resolve ==
  /\ mPhase = "given"
  /\ Len(mFiles) > 0
  /\ mPick' = pickAndUnrestrict([files |-> Arr(mFiles), links |-> Arr(LinksOf(mFiles))],
                                requestedEpisode(mMovie, mEp))
  /\ mLink' = listedLink([files |-> Arr(mFiles), links |-> Arr(LinksOf(mFiles))],
                         IF mMovie THEN "movie" ELSE "series", mEp)
  /\ mPhase' = "picked"
  /\ UNCHANGED <<mFiles, mMovie, mEp>>
  /\ MatchFixed

MatchNext == ListFile \/ Resolve

MatchSpec == MatchInit /\ [][MatchNext]_vars

\* ---------------------------------------------- GET /stream/:type/:id.json
\* Longest finalStreams list enumerated.
MaxStreams == 3

\* A stream descriptor with the fields dedupeStreams and sortStreams read;
\* "" is a field the descriptor does not have (undefined or null).
P2P(quality, language, infoHash) ==
  [isRD |-> FALSE, quality |-> quality, language |-> language,
   infoHash |-> infoHash, url |-> ""]
RD(quality, language, url) ==
  [isRD |-> TRUE, quality |-> quality, language |-> language,
   infoHash |-> "", url |-> url]

\* Peer-to-peer descriptors the pending branch (lines 1139-1160) and the
\* branch without the provider (lines 1284-1306) push.
P2PStreams ==
  { P2P("720p", "Tamil", "h1"), P2P("720p", "tamil", "h1"), P2P("720p", "Tamil", "h2"),
    P2P("1080p", "Tamil", "h1"), P2P("SD", "", "h1"), P2P("", "", "h1"),
    P2P("4K", "Hindi", "h1"), P2P("HDRip", "", "h1"), P2P("SD", "zzz", "h1") }

\* Stream rows models.Stream.findAll returns (line 1196); h1 is the infohash
\* whose RdTorrent row is modelled, h2 has none.
DbStreams ==
  { [quality |-> "480p", language |-> "Tamil", infohash |-> "h1"],
    [quality |-> "2160p", language |-> "", infohash |-> "h1"],
    [quality |-> "1080p", language |-> "Hindi", infohash |-> "h2"] }

qualityOrder(q) ==
  CASE q \in {"4K", "2160p"} -> 1
    [] q = "1080p" -> 2
    [] q = "720p" -> 3
    [] q = "480p" -> 4
    [] q = "SD" -> 5
    [] OTHER -> 0     \* undefined

\* la.localeCompare(lb) on the lower-cased languages of the descriptors.
localeCompare(la, lb) ==
  LET pos(l) == CASE l = "hindi" -> 1 [] l = "tamil" -> 2 [] l = "zzz" -> 4
                    [] OTHER -> 3   \* "zz"
  IN IF pos(la) < pos(lb) THEN -1 ELSE IF pos(la) > pos(lb) THEN 1 ELSE 0

\* Quality alone, the provider flag ignored.
sortByQuality(a, b) ==
  (IF qualityOrder(a.quality) # 0 THEN qualityOrder(a.quality) ELSE 99)
    - (IF qualityOrder(b.quality) # 0 THEN qualityOrder(b.quality) ELSE 99)

sortStreams(a, b) ==
  LET qa == IF qualityOrder(a.quality) # 0 THEN qualityOrder(a.quality) ELSE 99
      qb == IF qualityOrder(b.quality) # 0 THEN qualityOrder(b.quality) ELSE 99
      la == toLowerCase(IF a.language # "" THEN a.language ELSE "zz")
      lb == toLowerCase(IF b.language # "" THEN b.language ELSE "zz")
  IN IF a.isRD /\ ~b.isRD THEN -1
     ELSE IF ~a.isRD /\ b.isRD THEN 1
     ELSE IF qa # qb THEN qa - qb
     ELSE localeCompare(la, lb)

\* Array.prototype.sort with the comparator sortStreams: a stable sort, each
\* element placed before the first one it compares less than.
InsertStream(sorted, x) ==
  LET after == {i \in 1..Len(sorted) : sortStreams(x, sorted[i]) < 0}
      k == IF after = {} THEN Len(sorted) + 1
           ELSE CHOOSE i \in after : \A j \in after : i <= j
  IN SubSeq(sorted, 1, k - 1) \o <<x>> \o SubSeq(sorted, k, Len(sorted))

RECURSIVE sort(_)
sort(streams) ==
  IF streams = <<>> THEN <<>>
  ELSE InsertStream(sort(SubSeq(streams, 1, Len(streams) - 1)), streams[Len(streams)])

\* The key of line 710, its four parts kept apart.
Key(s) ==
  << IF s.isRD THEN "rd" ELSE "p2p",
     IF s.quality # "" THEN s.quality ELSE "SD",
     toLowerCase(IF s.language # "" THEN s.language ELSE "NA"),
     IF s.infoHash # "" THEN s.infoHash ELSE s.url >>

RECURSIVE dedupeFrom(_, _, _)
dedupeFrom(streams, seen, out) ==
  IF streams = <<>> THEN out
  ELSE IF Key(Head(streams)) \in seen THEN dedupeFrom(Tail(streams), seen, out)
  ELSE dedupeFrom(Tail(streams), seen \cup {Key(Head(streams))},
                  Append(out, Head(streams)))

\* Every descriptor kept.
keepAll(streams) == streams

dedupeStreams(streams) == dedupeFrom(streams, {}, <<>>)

\* Lines 1222-1248: the index into rdTorrent.links of the file the listing
\* streams (1-based; 0 = no file): among the files with selected === 1, the
\* largest .mkv/.mp4/.avi file of a movie, the first file of a series whose
\* derived episode is the one requested.
listingPick(row, type, episode) == listingIndex(Obj(row), type, episode)

\* The test of line 1219 and the one of line 1250.
listingReady(row, type, episode) ==
  /\ row.present /\ row.status = "downloaded"
  /\ Obj(row).files.isArr /\ Obj(row).links.isArr
  /\ listingPick(row, type, episode) # 0

\* A listing that resolves what is not ready.
resolvingCalls(ready) ==
  IF ready THEN {"findByPk", "unrestrictLink"}
  ELSE {"findByPk", "addMagnet", "selectFiles", "getTorrentInfo"}

\* The database and provider calls lines 1218-1279 make for one Stream row.
candidateCalls(ready) ==
  IF ready THEN {"findByPk", "unrestrictLink"} ELSE {"findByPk"}

\* The RdTorrent table as the engine leaves it: no row, or a snapshot with
\* its lock (upsertRdSnapshot writes both).
ListInit ==
  /\ streamRow = TRUE /\ magnetRow = TRUE /\ pendingThread = FALSE /\ legacyRow = FALSE
  /\ rdTorrent \in {NoRow} \cup {SnapshotOf(1, info) : info \in Infos}
  /\ lock = rdTorrent.present
  /\ lockAt = (IF lock THEN 1 ELSE 0) /\ now = 1
  /\ SvcIdle
  /\ jobs = (IF rdTorrent.present THEN 1 ELSE 0)
  /\ call = [c \in Calls |-> Fresh]
  /\ MatchIdle
  /\ sType \in {"movie", "series"}
  /\ sIn = <<>> /\ sOut = <<>> /\ sPhase = "build" /\ sCalls = {}

ListFixed ==
  /\ UNCHANGED <<rdTorrent, lock, lockAt, jobs, call>>
  /\ UNCHANGED fixedVars
  /\ UNCHANGED matchVars

\* finalStreams.push of a peer-to-peer descriptor (lines 1139-1160, 1284-1306).
PushP2P ==
  /\ sPhase = "build"
  /\ Len(sIn) < MaxStreams
  /\ \E s \in P2PStreams : sIn' = Append(sIn, s)
  /\ UNCHANGED <<sType, sOut, sPhase, sCalls>>
  /\ ListFixed

\* One iteration of the provider branch (lines 1199-1280): the snapshot of
\* the Stream row read, then a direct url for a ready file, or the url of
\* the on-demand endpoint.  rd.unrestrictLink is awaited without a try of its
\* own: when it throws the route's catch answers 500 with an empty list.
ListCandidate ==
  /\ sPhase = "build"
  /\ Len(sIn) < MaxStreams
  /\ \E stream \in DbStreams :
       LET row == IF stream.infohash = "h1" THEN rdTorrent ELSE NoRow
           episode == IF sType = "series" THEN 2 ELSE 0
           ready == listingReady(row, sType, episode)
           click == IF stream.infohash = "h1" THEN "rd-add/h1" ELSE "rd-add/h2"
       IN /\ sCalls' = sCalls \cup candidateCalls(ready)
          /\ \/ /\ ready
                /\ sIn' = Append(sIn, RD(stream.quality, stream.language, "download"))
                /\ UNCHANGED <<sOut, sPhase>>
             \/ /\ ready      \* unrestrictLink threw
                /\ sPhase' = "failed"
                /\ sOut' = <<>>
                /\ UNCHANGED sIn
             \/ /\ ~ready
                /\ sIn' = Append(sIn, RD(stream.quality, stream.language, click))
                /\ UNCHANGED <<sOut, sPhase>>
  /\ UNCHANGED sType
  /\ ListFixed

\* Lines 1311-1312; the early returns of lines 1168, 1177 and 1185 answer the
\* empty list this gives for an empty finalStreams.
Answer ==
  /\ sPhase = "build"
  /\ sOut' = sort(dedupeStreams(sIn))
  /\ sPhase' = "answered"
  /\ UNCHANGED <<sType, sIn, sCalls>>
  /\ ListFixed

ListNext == PushP2P \/ ListCandidate \/ Answer

ListSpec == ListInit /\ [][ListNext]_vars

\* ------------------------------------------------------ services/tracker.js
\* Longest response of the tracker list url enumerated, in lines.
MaxLines == 3

\* The services run beside the routes: the rows and handlers of the engine,
\* the matcher and the listing stay as they are.
EngineQuiet ==
  /\ Init
  /\ streamRow /\ magnetRow /\ ~pendingThread /\ ~legacyRow

EngineFixed ==
  /\ UNCHANGED <<dbVars, call, streamRow, magnetRow, pendingThread, legacyRow, now>>
  /\ UNCHANGED matchVars
  /\ UNCHANGED listVars

TrackerFixed == EngineFixed /\ UNCHANGED crawlVars

FALLBACK_TRACKERS ==
  << "udp://tracker.opentrackr.org:1337/announce",
     "udp://tracker.openbittorrent.com:6969/announce",
     "udp://tracker.dler.org:6969/announce",
     "udp://open.stealth.si:80/announce",
     "udp://opentracker.i2p.rocks:6969/announce" >>

\* Lines a tracker list is made of: a tracker, a tracker with blanks around
\* it, an empty line, a line of blanks, a comment.
Lines == {"udp://a", " udp://b ", "", "  ", "#c"}

\* line.trim()
trim(line) ==
  CASE line = " udp://b " -> "udp://b"
    [] line = "  " -> ""
    [] OTHER -> line

\* line.startsWith('#')
startsWithHash(line) == line = "#c"

\* data.split('\n').map(line => line.trim())
\*     .filter(line => line && !line.startsWith('#'))   (lines 25-28)
RECURSIVE parseTrackers(_)
parseTrackers(data) ==
  IF data = <<>> THEN <<>>
  ELSE LET line == trim(Head(data))
       IN IF line # "" /\ ~startsWithHash(line)
            THEN <<line>> \o parseTrackers(Tail(data))
          ELSE parseTrackers(Tail(data))

\* The cached list handed out as it is.
cachedAsIs(cached) == cached

\* Lines 49-53: what getTrackers leaves in cachedTrackers and returns.
nonEmptyTrackers(cached) ==
  IF Len(cached) = 0 THEN FALLBACK_TRACKERS ELSE cached

\* fetchAndCacheTrackers up to its await of axios.get (lines 20-23).
FetchStart ==
  /\ tPhase = "idle"
  /\ tPhase' = "fetching"
  /\ tData' = <<>>
  /\ UNCHANGED <<cachedTrackers, tGot>>
  /\ TrackerFixed

\* One more line of the response on its way.
TrackerLine ==
  /\ tPhase = "fetching"
  /\ Len(tData) < MaxLines
  /\ \E line \in Lines : tData' = Append(tData, line)
  /\ UNCHANGED <<cachedTrackers, tPhase, tGot>>
  /\ TrackerFixed

\* axios.get resolves (lines 24-41): an empty body is falsy and a list
\* without a tracker is refused, both fall back to the minimal list.
FetchReturns ==
  /\ tPhase = "fetching"
  /\ cachedTrackers' = IF tData # <<>> /\ Len(parseTrackers(tData)) > 0
                         THEN parseTrackers(tData)
                       ELSE FALLBACK_TRACKERS
  /\ tPhase' = "idle"
  /\ UNCHANGED <<tData, tGot>>
  /\ TrackerFixed

\* axios.get rejects, or response.data is not a string and split throws
\* (lines 37-41).
FetchRejects ==
  /\ tPhase = "fetching"
  /\ cachedTrackers' = FALLBACK_TRACKERS
  /\ tPhase' = "idle"
  /\ tData' = <<>>
  /\ UNCHANGED tGot
  /\ TrackerFixed

\* getTrackers() (lines 48-54), called at any time, a fetch under way or not.
getTrackers ==
  /\ cachedTrackers' = nonEmptyTrackers(cachedTrackers)
  /\ tGot' = [called |-> TRUE, list |-> nonEmptyTrackers(cachedTrackers)]
  /\ UNCHANGED <<tPhase, tData>>
  /\ TrackerFixed

TrackerNext == FetchStart \/ TrackerLine \/ FetchRejects \/ FetchReturns \/ getTrackers

TrackerSpec == EngineQuiet /\ [][TrackerNext]_vars

\* ------------------------------------------- services/orchestrator.js
\* Longest list runCrawler returns, in threads.
MaxThreads == 2

CrawlFixed == EngineFixed /\ UNCHANGED trackerVars

\* Scraped threads: the title "T" parses and may be stored already, under
\* the thread_hash of its content when it was stored; the title "bad" does
\* not parse, so no Thread row has it.
Threads == [raw_title : {"T", "bad"}, thread_hash : {1, 2}]

\* parser.parseTitle(raw_title) (line 59): null for a title it cannot parse.
parseTitle(raw_title) == raw_title # "bad"

\* A flag never seen set.
NeverBusy(flag) == FALSE

\* if (isCrawling) of line 27.
Busy(flag) == flag

\* A run is under way (triggered and not yet returned).
Running(w) == run[w].pc # "idle"

\* A run is between its guard and its finally block.
Crawling(w) == run[w].pc \notin {"idle", "dashboard"}

\* runFullWorkflow() called by the startup, the cron job or POST
\* /trigger-crawl (lines 27-36): the guard and the flag in one synchronous
\* stretch, up to the await of runCrawler.
Trigger(w) ==
  /\ run[w].pc = "idle"
  /\ \/ /\ Busy(isCrawling)
        /\ run' = [run EXCEPT ![w] = [IdleRun EXCEPT !.last = "skipped"]]
        /\ UNCHANGED isCrawling
     \/ /\ ~Busy(isCrawling)
        /\ isCrawling' = TRUE
        /\ run' = [run EXCEPT ![w] = [IdleRun EXCEPT !.pc = "crawling"]]
  /\ UNCHANGED <<exported, healthSeen, threadRow, failedThreads>>
  /\ CrawlFixed

\* The next iteration of the for loop of line 41 with the threads left, or
\* the end of the try block and the finally block up to its await (lines
\* 140-149): the flag is cleared before updateDashboardCache is awaited.
Continue(w, r, left) ==
  IF left = <<>>
    THEN /\ isCrawling' = FALSE
         /\ run' = [run EXCEPT ![w] = [r EXCEPT !.pc = "dashboard", !.scraped = <<>>,
                                                !.existing = 0, !.tmdb = FALSE]]
    ELSE /\ UNCHANGED isCrawling
         /\ run' = [run EXCEPT ![w] = [r EXCEPT !.pc = "findOne", !.scraped = left,
                                                !.existing = 0, !.tmdb = FALSE]]

\* await runCrawler() (line 36).
Crawled(w) ==
  /\ run[w].pc = "crawling"
  /\ \E n \in 0..MaxThreads : \E list \in [1..n -> Threads] :
       Continue(w, run[w], list)
  /\ UNCHANGED <<exported, healthSeen, threadRow, failedThreads>>
  /\ CrawlFixed

\* An awaited call outside the inner try rejects, or t.rollback() or
\* logFailedThread inside its catch do (lines 145-149): the outer catch logs,
\* the finally block clears the flag and awaits updateDashboardCache.
Fatal(w) ==
  /\ run[w].pc \in {"crawling", "findOne", "destroy", "logParse", "tmdb", "begin",
                     "rollback", "logFailed"}
  /\ isCrawling' = FALSE
  /\ run' = [run EXCEPT ![w] = [@ EXCEPT !.pc = "dashboard", !.scraped = <<>>,
                                         !.existing = 0, !.tmdb = FALSE]]
  /\ UNCHANGED <<exported, healthSeen, threadRow, failedThreads>>
  /\ CrawlFixed

\* await models.Thread.findOne({ where: { raw_title } }) and what follows up
\* to the next await (lines 44-65).
FindOne(w) ==
  LET r == run[w]
      thread == Head(r.scraped)
      existingThread == IF thread.raw_title = "T" THEN threadRow ELSE 0
  IN /\ r.pc = "findOne"
     /\ IF existingThread # 0 /\ existingThread = thread.thread_hash
          THEN Continue(w, r, Tail(r.scraped))                       \* skipped
        ELSE /\ run' = [run EXCEPT ![w] =
                         [r EXCEPT !.existing = existingThread,
                                   !.pc = IF existingThread # 0 THEN "destroy"
                                          ELSE IF parseTitle(thread.raw_title) THEN "tmdb"
                                          ELSE "logParse"]]
             /\ UNCHANGED isCrawling
     /\ UNCHANGED <<exported, healthSeen, threadRow, failedThreads>>
     /\ CrawlFixed

\* await existingThread.destroy() (line 52), outside any transaction.
Destroy(w) ==
  LET r == run[w]
      thread == Head(r.scraped)
  IN /\ r.pc = "destroy"
     /\ threadRow' = 0
     /\ run' = [run EXCEPT ![w] = [r EXCEPT !.pc = IF parseTitle(thread.raw_title)
                                                      THEN "tmdb" ELSE "logParse"]]
     /\ UNCHANGED <<isCrawling, exported, healthSeen, failedThreads>>
     /\ CrawlFixed

\* await crud.logFailedThread(..., 'Title parsing failed critically.') (line 61).
LogParse(w) ==
  LET r == run[w]
  IN /\ r.pc = "logParse"
     /\ failedThreads' = failedThreads \cup {Head(r.scraped).thread_hash}
     /\ Continue(w, r, Tail(r.scraped))
     /\ UNCHANGED <<exported, healthSeen, threadRow>>
     /\ CrawlFixed

\* await metadata.getTmdbMetadata(...) (line 65): a match or none.
Tmdb(w) ==
  /\ run[w].pc = "tmdb"
  /\ \E found \in BOOLEAN :
       run' = [run EXCEPT ![w] = [@ EXCEPT !.tmdb = found, !.pc = "begin"]]
  /\ UNCHANGED <<isCrawling, exported, healthSeen, threadRow, failedThreads>>
  /\ CrawlFixed

\* await sequelize.transaction() (line 67).
Begin(w) ==
  /\ run[w].pc = "begin"
  /\ run' = [run EXCEPT ![w] = [@ EXCEPT !.pc = "tx"]]
  /\ UNCHANGED <<isCrawling, exported, healthSeen, threadRow, failedThreads>>
  /\ CrawlFixed

\* The transaction (lines 68-133): what it writes is seen once t.commit()
\* resolves, the Thread row upserted under the new thread_hash; or one of
\* its awaits rejects and line 135 is next, with nothing of it written.
Transact(w) ==
  LET r == run[w]
  IN /\ r.pc = "tx"
     /\ \/ /\ threadRow' = Head(r.scraped).thread_hash
           /\ Continue(w, r, Tail(r.scraped))
        \/ /\ run' = [run EXCEPT ![w] = [r EXCEPT !.pc = "rollback"]]
           /\ UNCHANGED <<isCrawling, threadRow>>
     /\ UNCHANGED <<exported, healthSeen, failedThreads>>
     /\ CrawlFixed

\* await t.rollback() (line 135).
Rollback(w) ==
  /\ run[w].pc = "rollback"
  /\ run' = [run EXCEPT ![w] = [@ EXCEPT !.pc = "logFailed"]]
  /\ UNCHANGED <<isCrawling, exported, healthSeen, threadRow, failedThreads>>
  /\ CrawlFixed

\* await crud.logFailedThread(..., 'DB transaction failed.') (line 137).
LogFailed(w) ==
  LET r == run[w]
  IN /\ r.pc = "logFailed"
     /\ failedThreads' = failedThreads \cup {Head(r.scraped).thread_hash}
     /\ Continue(w, r, Tail(r.scraped))
     /\ UNCHANGED <<exported, healthSeen, threadRow>>
     /\ CrawlFixed

\* await updateDashboardCache() of the finally block (lines 149-151), which
\* catches its own errors; the execution returns.
Dashboard(w) ==
  /\ run[w].pc = "dashboard"
  /\ run' = [run EXCEPT ![w] = [IdleRun EXCEPT !.last = "finished"]]
  /\ UNCHANGED <<isCrawling, exported, healthSeen, threadRow, failedThreads>>
  /\ CrawlFixed

\* GET /health (part_003 lines 244-273): isCrawling there is the constant
\* destructured from module.exports at line 4.
Health ==
  /\ healthSeen' = [asked |-> TRUE, isCrawling |-> exported,
                    running |-> \E w \in Runs : Running(w)]
  /\ UNCHANGED <<isCrawling, exported, run, threadRow, failedThreads>>
  /\ CrawlFixed

RunStep(w) ==
  \/ Trigger(w) \/ Crawled(w) \/ Fatal(w) \/ FindOne(w) \/ Destroy(w) \/ LogParse(w)
  \/ Tmdb(w) \/ Begin(w) \/ Transact(w) \/ Rollback(w) \/ LogFailed(w) \/ Dashboard(w)

CrawlNext == (\E w \in Runs : RunStep(w)) \/ Health

\* Every execution triggered goes on: its awaited calls settle.
CrawlSpec == EngineQuiet /\ [][CrawlNext]_vars /\ \A w \in Runs : WF_vars(RunStep(w))

\* ================================================================== claims
\* Job-creation calls (add-by-magnet, add-and-select) and select-files calls
\* a handler has made are read from its record: initAdds counts the
\* job-creation calls made before the poll loop, initJobs those of them that
\* created a job, reAdded tells that the poll loop made a re-add, didSelect
\* that select-files was called (directly, by the handler).

\* ------------------------------------------------------------------- C1
\* C1 as stated: a call that finds a downloaded snapshot with a matching file
\* makes no add-by-magnet, add-and-select or select-files call, whatever the
\* provider answers.
C1_IdempotentFastPath ==
  \A c \in Calls :
    call[c].fast = "hit" =>
      call[c].initAdds = 0 /\ ~call[c].reAdded /\ ~call[c].didSelect

\* C1 (amended): a call that finds a downloaded snapshot with a matching file
\* makes no job-creation call before its poll loop, and no select-files call
\* unless its poll loop re-added the job after an expired fault; when the
\* unrestrict of the fast path succeeds it makes no other provider call.
C1_FastPathNoCreation ==
  \A c \in Calls :
    call[c].fast = "hit" =>
      /\ call[c].initAdds = 0 /\ call[c].initJobs = 0
      /\ (call[c].didSelect => call[c].reAdded)
      /\ (call[c].reAdded => call[c].didFetch)
      /\ (call[c].pc \in {"reAddMagnet", "reAddAndSelect", "reSelect"} => call[c].didFetch)

\* A call hit the fast path, its unrestrict failed, and it went on to poll
\* and returned.
C1_Witness ==
  \E c \in Calls :
    call[c].fast = "hit" /\ call[c].didFetch /\ call[c].pc = "done"

\* ------------------------------------------------------------------- C2
\* C2 as stated: a job-creation call is made only while no job has been
\* created for the infohash, over any interleaving.
C2_SingleFlight ==
  [][\A c \in Calls : call'[c].initAdds > call[c].initAdds => jobs = 0]_vars

\* C2 (amended): a call that reads the lock as present makes no job-creation
\* call before its poll loop.
C2_LockSeenNoCreation ==
  \A c \in Calls :
    call[c].lockSeen = "present" => call[c].initAdds = 0 /\ call[c].initJobs = 0

\* One call created the job and another, finding the lock, polled and returned.
C2_Witness ==
  \E c1, c2 \in Calls :
    /\ c1 # c2
    /\ call[c1].initJobs = 1
    /\ call[c2].lockSeen = "present" /\ call[c2].didFetch /\ call[c2].pc = "done"

\* ------------------------------------------------------------------- C3
\* C3 as stated: two calls that both read the lock as absent make at most two
\* job-creation calls together.
C3_TwoCreationCalls ==
  (\A c \in Calls : call[c].lockSeen = "absent") =>
    call["h1"].initAdds + call["h2"].initAdds <= 2

\* C3 (amended): each call makes at most two job-creation calls before its
\* poll loop (add-by-magnet, then add-and-select only when the former gave no
\* job id) and at most one of them creates a job, so two calls that both read
\* the lock as absent create at most two jobs.
C3_OneJobPerCaller ==
  /\ \A c \in Calls : call[c].initAdds <= 2 /\ call[c].initJobs <= 1
  /\ \A c \in Calls : call[c].initAdds = 2 => call[c].lockSeen = "absent"
  /\ call["h1"].initJobs + call["h2"].initJobs <= 2

\* Both calls read the lock as absent and made three job-creation calls.
C3_Witness ==
  /\ \A c \in Calls : call[c].lockSeen = "absent"
  /\ call["h1"].initAdds + call["h2"].initAdds >= 3
  /\ call["h1"].initJobs + call["h2"].initJobs = 2

\* ------------------------------------------------------------------- C4
\* C4 as stated: within one call, once the poll loop has made a re-add no
\* later expired fault makes it call add-by-magnet again.
C4_SingleReAdd ==
  [][\A c \in Calls : call[c].reAdded => ~ReAddMagnet(c)]_vars

\* ------------------------------------------------------------------- C5
\* The infohash has no Stream row or no MagnetCache row.
Unknown == ~streamRow \/ ~magnetRow

\* C5 as stated: a call for an infohash without Stream row or without
\* MagnetCache row makes no provider call at all, whatever rows exist.
C5_NoProviderCall ==
  \A c \in Calls :
    Unknown =>
      /\ call[c].initAdds = 0 /\ ~call[c].reAdded /\ ~call[c].didSelect
      /\ ~call[c].didFetch /\ ~call[c].didUnrestrict

\* C5 (amended): a call for an infohash without Stream row or without
\* MagnetCache row makes no add, select or status call; it calls unrestrict
\* only on a cached snapshot whose file and link lists are usable, and
\* otherwise answers not indexed, magnet unavailable or, on a database fault,
\* the temporary error.
C5_UnknownNoJobCall ==
  \A c \in Calls :
    Unknown =>
      /\ call[c].initAdds = 0 /\ ~call[c].reAdded /\ ~call[c].didSelect
      /\ ~call[c].didFetch
      /\ (call[c].didUnrestrict => call[c].fast # "miss")
      /\ (call[c].pc = "done" /\ ~call[c].didUnrestrict =>
            call[c].out \in {"notIndexed", "magnetUnavailable", "error"})
      /\ call[c].lockSeen = "unread"

\* A call for an infohash without Stream row found a snapshot that the admin
\* check had stored, not usable, and answered not indexed.
C5_Witness ==
  \E c \in Calls :
    /\ ~streamRow /\ rdTorrent.present
    /\ call[c].pc = "done" /\ call[c].out = "notIndexed"

\* ------------------------------------------------------------------- C6
\* C6: every handler that has ended has sent exactly one response, a 302
\* after a successful unrestrict or a 503; none before it ends; never a 404.
C6_OneResponse ==
  \A c \in Calls :
    /\ Len(call[c].resp) <= 1
    /\ (call[c].pc = "done" <=> Len(call[c].resp) = 1)
    /\ \A i \in 1..Len(call[c].resp) : call[c].resp[i] \in {302, 503}
    /\ (call[c].resp = <<302>> <=> call[c].out = "ready")
    /\ (call[c].out = "ready" => call[c].didUnrestrict)

\* One handler ended on a database fault with 503, the other with a redirect.
C6_Witness ==
  \E c1, c2 \in Calls :
    /\ call[c1].out = "error" /\ call[c1].resp = <<503>>
    /\ call[c2].out = "ready" /\ call[c2].resp = <<302>>

\* ------------------------------------------------------------------- C7
\* C7: a request that has arrived is answered, whatever the provider and the
\* database do; the poll loop never runs past the deadline by more than the
\* delay of one re-add.
C7_DeadlineTermination ==
  /\ (call["h1"].pc # "idle") ~> (call["h1"].pc = "done")
  /\ [](call["h1"].elapsed <= DeadlineTicks + 1)

\* The handler polled to the deadline, re-adding on the way, and answered 503.
C7_Witness ==
  /\ call["h1"].pc = "done" /\ call["h1"].out = "timeout"
  /\ call["h1"].reAdded /\ call["h1"].resp = <<503>>

\* ------------------------------------------------------------ C8, C9, C10
\* What the File Matcher is to choose from: the selected video files.
Candidates == {i \in 1..Len(mFiles) : mFiles[i].selected = 1 /\ isVideo(mFiles[i].path)}

\* The candidates whose derived episode is the requested one.
EpisodeCandidates == {i \in Candidates : DerivedEpisode(mFiles[i].path) = mEp}

\* The link the provider lists for a file is named by the id of that file
\* (LinksOf), so a pick is aligned when its link carries the id of its file.
Aligned(pick) == pick.link = pick.file.id

\* C8 as stated: for a requested episode, the file chosen is the first
\* selected video file whose derived episode is the request, and the link
\* unrestricted is the link of that file.
C8_EpisodeMatch ==
  (mPhase = "picked" /\ ~mMovie /\ EpisodeCandidates # {}) =>
    /\ mPick.call
    /\ mPick.idx \in EpisodeCandidates
    /\ \A i \in EpisodeCandidates : mPick.idx <= i
    /\ Aligned(mPick)

\* C9 as stated: the link unrestricted is the link of the chosen file, and
\* the chosen file is selected and is a video file.
C9_Alignment ==
  (mPhase = "picked" /\ mPick.call) =>
    /\ mPick.file.selected = 1
    /\ isVideo(mPick.file.path)
    /\ Aligned(mPick)

\* C10 as stated: for a movie (requested with episode 1) the link unrestricted
\* is the link of a video file of largest byte size, in every file order and
\* whatever episode the file names derive.
C10_MovieLargest ==
  (mPhase = "picked" /\ mMovie /\ Candidates # {}) =>
    /\ mPick.call
    /\ mPick.idx \in Candidates
    /\ \A i \in Candidates : mFiles[i].bytes <= mPick.file.bytes
    /\ Aligned(mPick)

\* ------------------------------------------------------------------ C11
\* The job-creation steps a handler takes before its poll loop.
InCreation(c) == call[c].pc \in {"lockAcquire", "addMagnet", "saveQueued", "addAndSelect"}

\* C11 as stated: a call that found the lock present issues no job-creation
\* call at all, neither before its poll loop nor as a re-add inside it.
C11_LockAbsenceOnlyPermission ==
  \A c \in Calls :
    (call[c].initAdds > 0 \/ call[c].reAdded) => call[c].lockSeen = "absent"

\* C11 (amended): every job-creation call issued before the poll loop is
\* issued by a call that had read the lock as absent, and the handler is
\* inside its job-creation steps only after that read; the re-add of the poll
\* loop is issued whatever the lock read gave.
C11_CreationAfterAbsentRead ==
  \A c \in Calls :
    /\ (call[c].initAdds > 0 \/ call[c].initJobs > 0 \/ InCreation(c)) =>
         call[c].lockSeen = "absent"
    /\ (call[c].reAdded => call[c].lockSeen \in {"absent", "present"})

\* One call created the job after reading the lock as absent; another, which
\* had found the lock, re-added inside its poll loop.
C11_Witness ==
  \E c1, c2 \in Calls :
    /\ call[c1].lockSeen = "absent" /\ call[c1].initJobs = 1
    /\ call[c2].lockSeen = "present" /\ call[c2].reAdded /\ call[c2].initAdds = 0

\* ------------------------------------------------------------------ C12
\* The steps of a handler between its snapshot read and its poll loop in
\* which rdId is still the job id it read from the snapshot.
HoldsCachedId(c) ==
  /\ call[c].pc \in {"indexChecks", "readLock", "lockUpsertNT", "lockAcquire"}
  /\ call[c].rdId # 0

\* C12 as stated, for a snapshot with a job id persisted before any call
\* starts: every call creates no job, neither before nor inside its poll
\* loop, and polls the job id recorded on the snapshot.
C12_Convergence ==
  legacyRow =>
    \A c \in Calls :
      /\ call[c].initAdds = 0 /\ ~call[c].reAdded
      /\ (call[c].pc = "poll" => call[c].rdId = rdTorrent.rd_id)

\* C12 (amended): a call that read a job id from the snapshot makes no
\* job-creation call before its poll loop and enters the poll loop with the
\* job id it read; with the lock present it goes from the lock read directly
\* to polling.  (The re-add inside the poll loop may still create a job, and
\* the id polled is the one read at the start, not a later one.)
C12_CachedIdNoCreation ==
  /\ [](\A c \in Calls :
          /\ (HoldsCachedId(c) => call[c].initAdds = 0)
          /\ (call[c].pc \in {"addMagnet", "addAndSelect"} => call[c].rdId = 0))
  /\ [][\A c \in Calls :
          /\ (call[c].pc = "fastPath" /\ rdTorrent.rd_id # 0 =>
                call'[c].pc \in {"fastPath", "done"} \/ call'[c].rdId = rdTorrent.rd_id)
          /\ (HoldsCachedId(c) =>
                /\ call'[c].pc \notin {"addMagnet", "addAndSelect", "saveQueued", "refetch"}
                /\ call'[c].initAdds = 0
                /\ (call'[c].pc # "done" => call'[c].rdId = call[c].rdId)
                /\ (call[c].pc = "readLock" /\ lock /\ call'[c].pc \notin {"readLock", "done"} =>
                      call'[c].pc = "poll"))]_vars

\* One call created the job and stored its id; the other read that id, found
\* the lock and is polling the same job without having created one.
C12_Witness ==
  \E c1, c2 \in Calls :
    /\ c1 # c2 /\ ~legacyRow
    /\ call[c1].initJobs = 1
    /\ call[c2].pc = "poll" /\ call[c2].lockSeen = "present" /\ call[c2].initAdds = 0
    /\ call[c2].rdId = rdTorrent.rd_id /\ call[c2].didFetch

\* ------------------------------------------------------------------- C13
\* The positions of a list that hold the first descriptor of their key.
FirstOfKey(streams) ==
  {i \in 1..Len(streams) : \A j \in 1..(i - 1) : Key(streams[j]) # Key(streams[i])}

\* The elements of a list at a set of positions, in list order.
AtPositions(streams, idxs) ==
  [k \in 1..Cardinality(idxs) |->
     streams[CHOOSE i \in idxs : Cardinality({j \in idxs : j <= i}) = k]]

\* C13: dedupeStreams returns the subsequence of its input made of the first
\* descriptor of every composite key (provider-backed or peer-to-peer,
\* quality, lower-cased language, fingerprint or url), so no two descriptors
\* of the result share a key and every key of the input is kept; applied to
\* its own result it changes nothing.
C13_DedupeFirstOccurrence ==
  LET out == dedupeStreams(sIn)
  IN /\ out = AtPositions(sIn, FirstOfKey(sIn))
     /\ \A a, b \in 1..Len(out) : a # b => Key(out[a]) # Key(out[b])
     /\ {Key(out[k]) : k \in 1..Len(out)} = {Key(sIn[i]) : i \in 1..Len(sIn)}
     /\ dedupeStreams(out) = out

\* A list answered whose second and third descriptors repeat the key of the
\* first in another spelling: the first alone is kept.
C13_Witness ==
  /\ sPhase = "answered"
  /\ Len(sIn) = 3
  /\ sIn[1] = P2P("720p", "Tamil", "h1")
  /\ sIn[2] = P2P("720p", "tamil", "h1")
  /\ sIn[3] = P2P("720p", "Tamil", "h1")
  /\ sOut = <<sIn[1]>>

\* ------------------------------------------------------------------- C14
\* The quality rank as C14 gives it.
StatedRank(q) ==
  CASE q \in {"4K", "2160p"} -> 1
    [] q = "1080p" -> 2
    [] q = "720p" -> 3
    [] q = "480p" -> 4
    [] OTHER -> 99

\* C14: the list answered holds the deduplicated descriptors, every
\* provider-backed descriptor before every peer-to-peer one and, within each
\* group, in ascending quality rank (4K/2160p 1, 1080p 2, 720p 3, 480p 4, any
\* other or missing label 99).
C14_SortOrder ==
  sPhase = "answered" =>
    /\ Len(sOut) = Len(dedupeStreams(sIn))
    /\ {sOut[i] : i \in 1..Len(sOut)}
         = {dedupeStreams(sIn)[i] : i \in 1..Len(dedupeStreams(sIn))}
    /\ \A i, j \in 1..Len(sOut) :
         i < j =>
           /\ (sOut[j].isRD => sOut[i].isRD)
           /\ (sOut[i].isRD = sOut[j].isRD
                 => StatedRank(sOut[i].quality) <= StatedRank(sOut[j].quality))

\* [P2P 720p, RD 480p, P2P 1080p] answered as [RD 480p, P2P 1080p, P2P 720p].
C14_Witness ==
  /\ sPhase = "answered"
  /\ Len(sIn) = 3 /\ Len(sOut) = 3
  /\ ~sIn[1].isRD /\ sIn[1].quality = "720p"
  /\ sIn[2].isRD /\ sIn[2].quality = "480p"
  /\ ~sIn[3].isRD /\ sIn[3].quality = "1080p"
  /\ sOut = <<sIn[2], sIn[3], sIn[1]>>

\* ------------------------------------------------------------------- C15
\* C15: while it builds descriptors the stream listing reads the snapshot and
\* asks the provider for a direct url, nothing else: it makes no
\* add-by-magnet, add-and-select, select-files or status-fetch call, and no
\* step of it changes the RdTorrent row, the RdCacheLock row or the jobs of
\* the provider.
C15_ListingFastPathOnly ==
  /\ [](sCalls \subseteq {"findByPk", "unrestrictLink"})
  /\ [][rdTorrent' = rdTorrent /\ lock' = lock /\ jobs' = jobs]_vars

\* A listing that has pushed a direct url for a downloaded snapshot and the
\* url of the on-demand endpoint for an infohash without one, the snapshot
\* and its lock in place.
C15_Witness ==
  /\ sPhase = "answered"
  /\ rdTorrent.present /\ rdTorrent.status = "downloaded" /\ lock
  /\ "unrestrictLink" \in sCalls
  /\ \E i, j \in 1..Len(sIn) :
       /\ sIn[i].isRD /\ sIn[i].url = "download"
       /\ sIn[j].isRD /\ sIn[j].url = "rd-add/h2"

\* ------------------------------------------------------------------- C16
\* C16 as stated: a status fetch that fails otherwise than with the typed
\* not-found error (it throws another error, or answers a body that is no
\* torrent) leaves the call polling the same job id and creates no job.
C16_TransientFaults ==
  [][\A c \in Calls :
       (FetchThrows(c, FALSE) \/ FetchNull(c)) =>
         /\ call'[c].pc = "poll"
         /\ call'[c].rdId = call[c].rdId
         /\ jobs' = jobs]_vars

\* ------------------------------------------------------------------- C17
\* C17: a poll answered with a failure status (error, magnet_error) or with a
\* downloaded torrent that has no matching file records that status on the
\* snapshot under the polled job id and leaves the call in the loop, on the
\* same job id, with no job created; a call whose deadline has passed in the
\* loop answers 503 (still preparing).
C17_FailureKeepsPolling ==
  /\ [][\A c \in Calls : \A info \in FailedInfos \cup {InfoNoVideo} :
          \A w \in upsertRdSnapshot(call[c].rdId, info) :
            (Answered(c, info, w) /\ w.ok) =>
              /\ call'[c].pc = "poll"
              /\ call'[c].rdId = call[c].rdId
              /\ rdTorrent'.status = info.status
              /\ rdTorrent'.rd_id = call[c].rdId
              /\ jobs' = jobs]_vars
  /\ [][\A c \in Calls :
          (call[c].pc = "poll" /\ call[c].elapsed >= DeadlineTicks /\ call'[c] # call[c]) =>
            call'[c].out = "timeout" /\ call'[c].resp = <<503>>]_vars

\* A call that polled a failure status and, on a later poll of the same
\* request, redirected to the file.
C17_Witness ==
  \E c \in Calls :
    /\ call[c].sawFailed
    /\ call[c].pc = "done" /\ call[c].out = "ready" /\ call[c].resp = <<302>>

\* ------------------------------------------------------------------- C18
\* C18 as stated: every iteration of the poll loop has persisted the snapshot
\* of the job it polls, so when the loop ends at the deadline the RdTorrent
\* row carries the job id the call polled last.
C18_SnapshotReflectsLastPoll ==
  [][\A c \in Calls :
       PollDeadline(c) => rdTorrent.present /\ rdTorrent.rd_id = call[c].rdId]_vars

\* ------------------------------------------------------------------- C19
\* C19 as stated: the lock row exists when add-by-magnet is issued, and a
\* call whose add-by-magnet gave it a job id finds a snapshot with a job id
\* persisted when it calls select-files and when it polls.
C19_CreationOrdering ==
  \A c \in Calls :
    /\ (call[c].pc \in {"addMagnet", "saveQueued", "selectFiles"} => lock)
    /\ (call[c].pc \in {"selectFiles", "poll"} /\ call[c].initJobs > 0 /\ call[c].rdId # 0)
         => (rdTorrent.present /\ rdTorrent.rd_id # 0)

\* ------------------------------------------------------------------- C20
\* A call that holds no job id and is not past the lock read.
BeforeLock(c) ==
  /\ call[c].pc \in {"idle", "fastPath", "indexChecks", "readLock", "refetch", "done"}
  /\ call[c].rdId = 0

\* The lock row exists, no snapshot carries a job id, and no call is creating
\* or polling a job: what a failed job creation leaves behind for an indexed
\* infohash.
Stuck ==
  /\ lock /\ rdTorrent.rd_id = 0
  /\ streamRow /\ magnetRow
  /\ \A c \in Calls : BeforeLock(c)

\* C20: once the lock exists without a job id on the snapshot, it stays so:
\* no step creates a job or makes a job-creation call, and every resolve call
\* that answers does so with 503 "not created yet" (503 "temporary error"
\* when one of its database reads is rejected).
C20_StuckLock ==
  [][Stuck =>
       /\ Stuck'
       /\ jobs' = jobs
       /\ \A c \in Calls :
            /\ call'[c].initAdds = call[c].initAdds
            /\ call'[c].reAdded = call[c].reAdded
            /\ call'[c].didSelect = call[c].didSelect
            /\ (call[c].pc # "done" /\ call'[c].pc = "done") =>
                 /\ call'[c].resp = <<503>>
                 /\ call'[c].out \in {"notCreatedYet", "error"}
                 /\ (call[c].pc = "refetch" \/ call'[c].out = "error")]_vars

\* A call whose add-by-magnet and add-and-select both failed after it wrote
\* the lock, and a second call that found the lock and answered "not created
\* yet" without a creation call.
C20_Witness ==
  \E c1, c2 \in Calls :
    /\ Stuck
    /\ call[c1].pc = "done" /\ call[c1].initAdds = 2 /\ call[c1].initJobs = 0
    /\ call[c1].out = "notCreatedYet"
    /\ call[c2].pc = "done" /\ call[c2].lockSeen = "present" /\ call[c2].initAdds = 0
    /\ call[c2].out = "notCreatedYet" /\ call[c2].resp = <<503>>

\* ------------------------------------------------------------------- C21
\* C21: add-and-select is called only by a call that holds no job id after
\* add-by-magnet; when it gives no job id either the call reads the snapshot
\* once more and, finding no job id there, answers 503 without a status
\* fetch; when it succeeds its answer is the persisted snapshot, under the new
\* job id, and the call goes to the poll loop without calling select-files.
C21_CreationFallback ==
  /\ [](\A c \in Calls :
          /\ (call[c].pc = "addAndSelect" => call[c].rdId = 0 /\ call[c].initAdds = 1)
          /\ (call[c].initAdds = 2 /\ ~call[c].reAdded => ~call[c].didSelect)
          /\ (call[c].initAdds = 2 /\ call[c].pc = "poll" => rdTorrent.rd_id # 0)
          /\ (call[c].out = "notCreatedYet" => ~call[c].didFetch /\ call[c].resp = <<503>>))
  /\ [][\A c \in Calls :
          /\ AddAndSelect(c) =>
               /\ call'[c].pc \in {"poll", "refetch", "done"}
               /\ (call'[c].pc = "refetch" <=> call'[c].rdId = 0 /\ call'[c].resp = <<>>)
               /\ (call'[c].pc = "poll" =>
                     /\ call'[c].rdId = jobs'
                     /\ \E info \in Infos : rdTorrent' = SnapshotOf(call'[c].rdId, info)
                     /\ lock')
          /\ (Refetch(c) /\ rdTorrent.rd_id = 0) =>
               /\ call'[c].pc = "done" /\ call'[c].resp = <<503>>
               /\ call'[c].out \in {"notCreatedYet", "error"}]_vars

\* A call whose add-by-magnet failed and whose add-and-select succeeded: it
\* polls the job of the persisted snapshot and has not called select-files.
C21_Witness ==
  \E c \in Calls :
    /\ call[c].pc = "poll" /\ call[c].initAdds = 2 /\ call[c].initJobs = 1
    /\ ~call[c].didSelect /\ ~call[c].didFetch
    /\ rdTorrent.present /\ rdTorrent.rd_id = call[c].rdId
    /\ rdTorrent.status = "downloading"

\* ------------------------------------------------------------------- C22
\* C22 as stated: when a re-add completes (a new job created, its files
\* selected, the loop resumed), the RdTorrent row carries the new job id.
C22_ReAddReplacesSnapshot ==
  [][\A c \in Calls :
       ReSelect(c) => rdTorrent'.present /\ rdTorrent'.rd_id = call'[c].rdId]_vars

\* ------------------------------------------------------------------- C23
\* A row or answer with status downloaded and non-empty file and link lists.
DownloadedWithLinks(row) ==
  /\ row.status = "downloaded"
  /\ Obj(row).files.isArr /\ Len(Obj(row).files.v) > 0
  /\ Obj(row).links.isArr /\ Len(Obj(row).links.v) > 0

\* C23 as stated: a call redirects only from the fast path on a downloaded
\* snapshot with files and links, or from a poll whose answer (the snapshot it
\* has just stored) is downloaded with files and links.
C23_ReadyOnlyFromDownloaded ==
  [][\A c \in Calls :
       (call[c].pc # "done" /\ call'[c].pc = "done" /\ call'[c].out = "ready") =>
         \/ call[c].pc = "fastPath" /\ rdTorrent.present /\ DownloadedWithLinks(rdTorrent)
         \/ call[c].pc = "poll" /\ DownloadedWithLinks(rdTorrent')]_vars

\* ------------------------------------------------------------------- C24
\* C24: a call whose unrestrict gave no url goes on: from the fast path to the
\* index checks, in the poll loop to the next iteration; no step after an
\* unrestrict answers anything but 302 or 503, and a call that has tried to
\* unrestrict ends with one of the two.
C24_UnrestrictFailureGoesOn ==
  /\ [](\A c \in Calls :
          call[c].didUnrestrict =>
            /\ call[c].resp \in {<<>>, <<302>>, <<503>>}
            /\ (call[c].pc = "done" => call[c].resp # <<>>))
  /\ [][\A c \in Calls :
          (~call[c].didUnrestrict /\ call'[c].didUnrestrict /\ call'[c].pc # "done") =>
            \/ call[c].pc = "fastPath" /\ call'[c].pc = "indexChecks"
            \/ call[c].pc = "poll" /\ call'[c].pc = "poll"]_vars
  /\ \A c \in Calls : call[c].didUnrestrict ~> call[c].pc = "done"

\* A call whose fast-path unrestrict failed on a downloaded snapshot and that
\* redirected from a later poll.
C24_Witness ==
  \E c \in Calls :
    /\ call[c].fast = "hit" /\ call[c].didFetch
    /\ call[c].pc = "done" /\ call[c].out = "ready" /\ call[c].resp = <<302>>

\* C25: the lock row of the infohash is never removed: no step of a resolve
\* call (lock acquisition, queued row, every snapshot write of the poll loop,
\* re-add) and no step of the admin check takes a state with a lock row to a
\* state without one.  The stream listing never writes the row at all
\* (C15_ListingFastPathOnly).
C25_LockNeverRemoved ==
  [][lock => lock']_vars

\* The call that acquired the lock has finished after fetching in the poll
\* loop, having written snapshots (and with them the lock row) on the way,
\* and the row is there.
C25_Witness ==
  \E c \in Calls :
    /\ call[c].pc = "done" /\ call[c].didFetch /\ call[c].lockSeen = "absent"
    /\ rdTorrent.present /\ lock

\* C26: the lock row keeps the creation time of the first resolution attempt:
\* once the row exists, no step (poll iteration, snapshot write, resolve call)
\* changes its createdAt.
C26_LockCreatedOnce ==
  [][lockAt # 0 => lockAt' = lockAt]_vars

\* C27: the answer given when the deadline is exhausted carries the last
\* status the provider reported during the call.  The call added the magnet
\* itself and is the only writer, and every fetched answer is stored by
\* upsertRdSnapshot before the loop goes on (line 998): a status other than
\* 'queued' in the row of its job is the status of its last fetched answer.
C27_PendingCarriesStatus ==
  [][\A c \in Calls :
       (PollDeadline(c) /\ call[c].initAdds > 0 /\ rdTorrent.present
        /\ rdTorrent.rd_id = call[c].rdId /\ rdTorrent.status # "queued") =>
         call'[c].out = rdTorrent.status]_vars

\* C28: every persisted RdTorrent row has a status of the stated set,
\* whatever the provider answered.
StatedStatuses ==
  {"queued", "magnet_conversion", "waiting_file_selection", "downloading",
   "downloaded", "error", "magnet_error"}

C28_StatusOfStatedSet ==
  rdTorrent.present => rdTorrent.status \in StatedStatuses

\* C29: with the provider configured, each candidate row adds exactly one
\* descriptor to the listing, a direct url or the url of the on-demand
\* endpoint with the candidate's infohash, and the listing goes on: what was
\* collected for the other candidates is kept, also when unrestrictLink
\* fails.
C29_OneDescriptorPerCandidate ==
  [][ListCandidate =>
       /\ sPhase' = "build"
       /\ Len(sIn') = Len(sIn) + 1
       /\ SubSeq(sIn', 1, Len(sIn)) = sIn
       /\ sIn'[Len(sIn')].isRD
       /\ sIn'[Len(sIn')].url \in {"download", "rd-add/h1", "rd-add/h2"}]_vars

\* The place of a lower-cased language in lexicographic order.
LexPos(l) == CASE l = "hindi" -> 1 [] l = "tamil" -> 2 [] l = "zzz" -> 3

\* C30: in the list answered, among descriptors of the same kind and the same
\* quality rank, the languages ascend lexicographically without regard to
\* case, and no descriptor with a language comes after one without.
C30_LanguageTieBreak ==
  sPhase = "answered" =>
    \A i, j \in 1..Len(sOut) :
      (/\ i < j
       /\ sOut[i].isRD = sOut[j].isRD
       /\ sortByQuality(sOut[i], sOut[j]) = 0) =>
        /\ (sOut[i].language = "" => sOut[j].language = "")
        /\ (sOut[i].language # "" /\ sOut[j].language # "" =>
              LexPos(toLowerCase(sOut[i].language)) <= LexPos(toLowerCase(sOut[j].language)))

\* ------------------------------------------------------------------- C31
\* C31: whatever fetches have run (a list with trackers, an empty or
\* comment-only response, a failed request) and also before the first
\* fetch, the list getTrackers returns has at least one tracker, and the
\* cached list it leaves behind too.
C31_TrackersNeverEmpty ==
  tGot.called => Len(tGot.list) >= 1 /\ Len(cachedTrackers) >= 1

\* A fetch answered comments and blank lines only, and getTrackers then
\* returned the minimal list.
C31_Witness ==
  /\ tPhase = "idle"
  /\ tData = <<"#c", "  ", "">>
  /\ tGot.called /\ tGot.list = FALLBACK_TRACKERS

\* ------------------------------------------------------------------- C32
\* C32: for the same downloaded snapshot and the same requested episode the
\* stream listing and the fast path of rd-add find a file to unrestrict in
\* the same cases, and then unrestrict the same link.
C32_ListingAgreesWithResolve ==
  mPhase = "picked" =>
    /\ mLink.ready <=> mPick.call
    /\ mLink.ready => mLink.link = mPick.link

\* ------------------------------------------------------------------- C33
\* C33: starting from empty RdTorrent and RdCacheLock tables, in every state
\* reached by the two interleaved resolve calls (and the admin check), an
\* RdTorrent row of the infohash is never there without its RdCacheLock
\* row: the lock is written before the first row (line 904 before 916 and
\* 933) and never removed.
C33_SnapshotImpliesLock ==
  ~legacyRow => (rdTorrent.present => lock)

\* From empty tables a call took the lock, added the magnet and stored the
\* queued row while the other call is under way.
C33_Witness ==
  /\ ~legacyRow
  /\ rdTorrent.present /\ rdTorrent.status = "queued" /\ lock
  /\ \E c \in Calls : call[c].initAdds = 1 /\ call[c].pc \notin {"idle", "done"}
  /\ \E c \in Calls : call[c].lockSeen = "present"

\* ------------------------------------------------------------------- C34
\* C34: no orphan job.  When rd.addAndSelect, called by the creation path or
\* by the re-add, has made the provider create a job, and the database took
\* what the handler wrote, the handler holds the id of that job: an answer
\* of "no result" means that no job was created.
C34_NoOrphanJob ==
  [][\A c \in Calls :
       ((AddAndSelect(c) \/ ReAddAndSelect(c)) /\ jobs' = jobs + 1
        /\ call'[c].out # "error") =>
         call'[c].rdId = jobs']_vars

\* ------------------------------------------------------------------- C35
\* C35: a resolve call that ends with "not indexed" or "magnet unavailable"
\* has written nothing.  The Stream and MagnetCache rows are checked before
\* the lock is read (no call reads the lock with one of them missing), a
\* call that ends with one of the two answers has read no lock and has
\* added, selected and fetched nothing, and no step a call takes before it
\* reads the lock changes the RdTorrent row, the RdCacheLock row or the
\* jobs of the provider.
C35_NotFoundWritesNothing ==
  /\ [](\A c \in Calls : call[c].lockSeen # "unread" => streamRow /\ magnetRow)
  /\ [](\A c \in Calls :
          (call[c].pc = "done" /\ call[c].out \in {"notIndexed", "magnetUnavailable"}) =>
            /\ call[c].lockSeen = "unread"
            /\ call[c].initAdds = 0 /\ call[c].initJobs = 0 /\ ~call[c].reAdded
            /\ ~call[c].didSelect /\ ~call[c].didFetch)
  /\ [][\A c \in Calls :
          (call'[c] # call[c] /\ call'[c].lockSeen = "unread") => dbVars' = dbVars]_vars

\* A call answered "not indexed" for an infohash whose snapshot and lock the
\* admin check had written: both are still there.
C35_Witness ==
  \E c \in Calls :
    /\ call[c].pc = "done" /\ call[c].out = "notIndexed"
    /\ rdTorrent.present /\ lock

\* ------------------------------------------------------------------- C36
\* C36 as stated: at most one execution of runFullWorkflow is past its guard
\* and has not returned.
C36_OneRunPastGuard ==
  Cardinality({w \in Runs : Running(w)}) <= 1

\* C36: under any sequence of triggers at most one execution is between its
\* guard and its finally block (crawling or processing threads), and the
\* flag is set exactly then; a trigger that arrives while the flag is set
\* returns without crawling; the flag is cleared whenever a run leaves that
\* stretch, normally or with an error, before the dashboard refresh of the
\* finally block is awaited.
C36_CrawlMutualExclusion ==
  /\ [](Cardinality({w \in Runs : Crawling(w)}) <= 1)
  /\ [](isCrawling <=> \E w \in Runs : Crawling(w))
  /\ [][\A w \in Runs :
          (run[w].pc = "idle" /\ isCrawling /\ run'[w] # run[w]) =>
            run'[w].pc = "idle" /\ run'[w].last = "skipped"]_vars
  /\ (isCrawling ~> ~isCrawling)

\* One execution has finished and returned after a thread of it failed, and
\* a later trigger runs: the other execution is past the guard, in its
\* transaction, with the flag set.
C36_Witness ==
  /\ run["w1"].pc = "idle" /\ run["w1"].last = "finished"
  /\ run["w2"].pc = "tx" /\ isCrawling
  /\ failedThreads # {}

\* ------------------------------------------------------------------- C37
\* C37: re-processing is all or nothing.  Once the transaction of a thread
\* whose title was stored under another thread_hash has failed and been
\* rolled back, the Thread row stored before is still there.
C37_ReprocessAllOrNothing ==
  \A w \in Runs :
    (run[w].pc = "logFailed" /\ run[w].existing # 0) => threadRow = run[w].existing

\* ------------------------------------------------------------------- C38
\* C38: the isCrawling value GET /health answers is true exactly when an
\* execution of runFullWorkflow is under way at that moment.
C38_HealthReportsCrawling ==
  healthSeen.asked => (healthSeen.isCrawling <=> healthSeen.running)

====
